---- MODULE Spec2Model ----
(***************************************************************************)
(* SpringBootModuleInjector of generators/spring-boot/support/typed-api.ts *)
(* as a state machine: the builder's three arrays, the sequences its       *)
(* accessors hand out, one applyTo activation, and the target generator     *)
(* (its composeWithJHipster calls and its jhipsterConfig map).              *)
(*                                                                         *)
(* JavaScript objects are records whose DOMAIN holds exactly the keys that  *)
(* are present; an optional argument is a sequence of length 0 or 1; an     *)
(* object used as a mapping (profiles) is the sequence of its <<key, value>>*)
(* entries in insertion order.                                              *)
(***************************************************************************)
EXTENDS Integers, Sequences, FiniteSets, TLC

VARIABLES
    arrays,          \* the heap of arrays: arrays[ref] is the content of array ref
    held,            \* the arrays the accessors returned to the caller: the field read and the ref returned
    run,             \* the activation of applyTo: promise state, sortedModules, loop position
    events,          \* what the current applyTo run did to the target, in order
    jhipsterConfig,  \* generator.jhipsterConfig
    last,            \* the most recent call and its arguments
    injectors,       \* the SpringBootModuleInjector objects: the refs of their three arrays
    this,            \* the injector the caller's chain of calls has reached
    inFlight,        \* the composeWithJHipster calls that have not signalled completion
    earlier          \* the composeWithJHipster calls that applyTo calls before this one made

vars == <<arrays, held, run, events, jhipsterConfig, last, injectors, this, inFlight, earlier>>

----------------------------------------------------------------------------
(* Bounds of the model *)

MaxModules == 3
MaxOverrides == 2
MaxDependencies == 2
MaxHeld == 1
MaxInjectors == 2
MaxListed == 2

----------------------------------------------------------------------------
(* The builder: typed-api.ts lines 118-121 *)

this_modules == injectors[this].modules
this_propertyOverrides == injectors[this].propertyOverrides
this_dependencies == injectors[this].dependencies

modules == arrays[this_modules]
propertyOverrides == arrays[this_propertyOverrides]
dependencies == arrays[this_dependencies]

\* createSpringBootInjector / the field initialisers: three empty arrays
NewInjector == << <<>>, <<>>, <<>> >>

\* the object `new SpringBootModuleInjector()` gives when the heap holds n arrays
InjectorAt(n) == [modules |-> n + 1, propertyOverrides |-> n + 2, dependencies |-> n + 3]

\* a method that ends without a return statement: the caller gets no injector
ReturnNothing(self) == 0

\* return this
ReturnThis(self) == self

\* { a, ...b }: the keys of b win over those written before the spread
Spread(before, spread) == spread @@ before

\* Array.prototype.push on the array ref
Push(ref, x) == [arrays EXCEPT ![ref] = Append(@, x)]

\* the default parameter of injectModule: config = { enabled: true }
DefaultModuleConfig(config) == IF Len(config) = 0 THEN [enabled |-> TRUE] ELSE config[1]

\* the default parameter of overrideProperty: options = {}
DefaultOptions(options) == IF Len(options) = 0 THEN <<>> ELSE options[1]

\* the object literal pushed by injectModule
ModuleRequest(module, config) ==
    Spread([module |-> module], DefaultModuleConfig(config))

\* the object literal pushed by overrideProperty
PropertyOverride(property, value, options) ==
    Spread([property |-> property, value |-> value], DefaultOptions(options))

InjectModule(module, config) ==
    /\ this \in DOMAIN injectors
    /\ Len(modules) < MaxModules
    /\ arrays' = Push(this_modules, ModuleRequest(module, config))
    /\ last' = [op |-> "injectModule", module |-> module, config |-> config]
    /\ this' = ReturnThis(this)
    /\ UNCHANGED <<held, run, events, jhipsterConfig, injectors, inFlight, earlier>>

OverrideProperty(property, value, options) ==
    /\ this \in DOMAIN injectors
    /\ Len(propertyOverrides) < MaxOverrides
    /\ arrays' = Push(this_propertyOverrides, PropertyOverride(property, value, options))
    /\ last' = [op |-> "overrideProperty", property |-> property, value |-> value,
                options |-> options]
    /\ this' = ReturnThis(this)
    /\ UNCHANGED <<held, run, events, jhipsterConfig, injectors, inFlight, earlier>>

AddDependency(config) ==
    /\ this \in DOMAIN injectors
    /\ Len(dependencies) < MaxDependencies
    /\ arrays' = Push(this_dependencies, config)
    /\ last' = [op |-> "addDependency", config |-> config]
    /\ this' = ReturnThis(this)
    /\ UNCHANGED <<held, run, events, jhipsterConfig, injectors, inFlight, earlier>>

----------------------------------------------------------------------------
(* The accessors: typed-api.ts lines 206-225, and what a caller can do with *)
(* the array it got                                                          *)

\* the same array handed out, without the copy
Alias(ref) == [arrays |-> arrays, ref |-> ref]

\* [...this.modules]: a new array with the elements of the array ref
Copy(ref) == [arrays |-> Append(arrays, arrays[ref]), ref |-> Len(arrays) + 1]

\* the caller keeps what the accessor returned
Return(of, out) ==
    /\ arrays' = out.arrays
    /\ held' = Append(held, [of |-> of, ref |-> out.ref])
    /\ UNCHANGED <<run, events, jhipsterConfig, injectors, this, inFlight, earlier>>

GetModules ==
    /\ Len(held) < MaxHeld
    /\ Return(this_modules, Copy(this_modules))
    /\ last' = [op |-> "getModules"]

GetPropertyOverrides ==
    /\ Len(held) < MaxHeld
    /\ Return(this_propertyOverrides, Copy(this_propertyOverrides))
    /\ last' = [op |-> "getPropertyOverrides"]

GetDependencies ==
    /\ Len(held) < MaxHeld
    /\ Return(this_dependencies, Copy(this_dependencies))
    /\ last' = [op |-> "getDependencies"]

\* an element of the caller's own
Intruder == [module |-> "jhipster:spring-boot:oauth2", enabled |-> TRUE]

Reverse(s) == [k \in 1..Len(s) |-> s[Len(s) + 1 - k]]

CallerChanges(h, content) ==
    /\ h \in 1..Len(held)
    /\ arrays' = [arrays EXCEPT ![held[h].ref] = content]
    /\ last' = [op |-> "caller"]
    /\ UNCHANGED <<held, run, events, jhipsterConfig, injectors, this, inFlight, earlier>>

\* the caller adds an element to a returned array
CallerPush(h) ==
    /\ h \in 1..Len(held)
    /\ Len(arrays[held[h].ref]) < MaxDependencies
    /\ CallerChanges(h, Append(arrays[held[h].ref], Intruder))

\* the caller removes the last element of a returned array
CallerPop(h) ==
    /\ h \in 1..Len(held)
    /\ arrays[held[h].ref] # <<>>
    /\ CallerChanges(h, SubSeq(arrays[held[h].ref], 1, Len(arrays[held[h].ref]) - 1))

\* the caller reorders a returned array
CallerReverse(h) ==
    /\ h \in 1..Len(held)
    /\ Reverse(arrays[held[h].ref]) # arrays[held[h].ref]
    /\ CallerChanges(h, Reverse(arrays[held[h].ref]))

----------------------------------------------------------------------------
(* Init *)

NoError == "none"

Idle == [state |-> "idle", sortedModules |-> <<>>, i |-> 0, error |-> NoError]

\* the configuration map of the generator handed to applyTo: empty (the mock of
\* the tests) or already holding entries of its own
InitialConfigs ==
    { <<>>,
      [baseName |-> "app",
       springBootDependencies |-> ("com.example:lib" :> "0.9.0")] }

Init ==
    /\ arrays = NewInjector
    /\ held = <<>>
    /\ run = Idle
    /\ events = <<>>
    /\ jhipsterConfig \in InitialConfigs
    /\ last = [op |-> "new"]
    /\ injectors = <<InjectorAt(0)>>
    /\ this = 1
    /\ inFlight = {}
    /\ earlier = {}

----------------------------------------------------------------------------
(* applyTo: typed-api.ts lines 157-204 *)

undefined == "undefined"

\* a.priority ?? 0
Priority(m) == IF "priority" \in DOMAIN m THEN m.priority ELSE 0

\* the comparator with its operands exchanged: a descending sort
CompareDescending(a, b) == Priority(b) - Priority(a)

\* the comparator handed to sort, line 159
Compare(a, b) == Priority(a) - Priority(b)

\* Array.prototype.sort is stable: an element goes in front of the first
\* element that compares greater than it, so behind every equal one
RECURSIVE InsertSorted(_, _)
InsertSorted(s, x) ==
    IF s = <<>> THEN <<x>>
    ELSE IF Compare(Head(s), x) > 0 THEN <<x>> \o s
    ELSE <<Head(s)>> \o InsertSorted(Tail(s), x)

RECURSIVE Sort(_)
Sort(s) ==
    IF s = <<>> THEN <<>>
    ELSE InsertSorted(Sort(SubSeq(s, 1, Len(s) - 1)), s[Len(s)])

\* the sorted copy without the requests an applyTo call before this one composed
SortedUnapplied(ms) ==
    Sort(SelectSeq(ms, LAMBDA m :
        [kind |-> "composeWithJHipster", key |-> m.module,
         value |-> IF "config" \in DOMAIN m THEN m.config ELSE undefined] \notin earlier))

\* [...this.modules].sort(...)
SortedModules(ms) == Sort(ms)

\* the sort run on this.modules itself
ModulesSortedInPlace(ms) == Sort(ms)

\* what the sort leaves in this.modules: the spread copy is the array that gets sorted
ModulesAfterSort(ms) == ms

\* the loop without its test of the enabled flag
ComposeAlways(m) == TRUE

\* if (moduleConfig.enabled)
ShouldCompose(m) == m.enabled

\* the first position from `from` on whose module is composed, Len + 1 when none
NextComposed(sorted, from) ==
    LET hits == {k \in from..Len(sorted) : ShouldCompose(sorted[k])}
    IN  IF hits = {} THEN Len(sorted) + 1
        ELSE CHOOSE k \in hits : \A j \in hits : k <= j

\* generator.composeWithJHipster(moduleConfig.module, {generatorOptions: moduleConfig.config})
ComposeEvent(m) ==
    [kind |-> "composeWithJHipster", key |-> m.module,
     value |-> IF "config" \in DOMAIN m THEN m.config ELSE undefined]

\* generator.jhipsterConfig[key] = value
SetProperty(T, key, value) ==
    [T EXCEPT !.events = Append(@, [kind |-> "property", key |-> key, value |-> value]),
              !.jhipsterConfig = (key :> value) @@ @]

\* the profile key built with a dot in place of the @
ProfileKeyDotted(property, profile) == property \o "." \o profile

\* `${property}@${profile}`
ProfileKey(property, profile) == property \o "@" \o profile

\* for (const [profile, profileValue] of Object.entries(profiles))
RECURSIVE SetProfiles(_, _, _)
SetProfiles(T, property, entries) ==
    IF entries = <<>> THEN T
    ELSE SetProfiles(SetProperty(T, ProfileKey(property, Head(entries)[1]), Head(entries)[2]),
                     property, Tail(entries))

applyPropertyOverride(T, propOverride) ==
    LET base == SetProperty(T, propOverride.property, propOverride.value)
    IN  IF "profiles" \in DOMAIN propOverride
        THEN SetProfiles(base, propOverride.property, propOverride.profiles)
        ELSE base

\* `${dep.groupId}:${dep.artifactId}`
DependencyKey(dep) == dep.groupId \o ":" \o dep.artifactId

\* the version copied as it is, absent or not
DependencyValueNoFallback(dep) == IF "version" \in DOMAIN dep THEN dep.version ELSE undefined

\* dep.version ?? 'BOM'
DependencyValue(dep) == IF "version" \in DOMAIN dep THEN dep.version ELSE "BOM"

\* a write that keeps the entry already under the key
SetDependencyIfAbsent(deps, key, value) == deps @@ (key :> value)

\* springBootDependencies[key] = value
SetDependency(deps, key, value) == (key :> value) @@ deps

\* the sub-map made anew at every call, whether or not there is one
addDependencyToFreshMap(T, dep) ==
    LET T1 == [T EXCEPT !.events = Append(@, [kind |-> "dependencies",
                                              key |-> "springBootDependencies",
                                              value |-> "{}"]),
                        !.jhipsterConfig = ("springBootDependencies" :> <<>>) @@ @]
    IN  [T1 EXCEPT !.events = Append(@, [kind |-> "dependency", key |-> DependencyKey(dep),
                                         value |-> DependencyValue(dep)]),
                   !.jhipsterConfig["springBootDependencies"] =
                       SetDependency(@, DependencyKey(dep), DependencyValue(dep))]

addDependencyToGenerator(T, dep) ==
    LET T1 == IF "springBootDependencies" \in DOMAIN T.jhipsterConfig THEN T
              ELSE [T EXCEPT !.events = Append(@, [kind |-> "dependencies",
                                                   key |-> "springBootDependencies",
                                                   value |-> "{}"]),
                             !.jhipsterConfig = ("springBootDependencies" :> <<>>) @@ @]
    IN  [T1 EXCEPT !.events = Append(@, [kind |-> "dependency", key |-> DependencyKey(dep),
                                         value |-> DependencyValue(dep)]),
                   !.jhipsterConfig["springBootDependencies"] =
                       SetDependency(@, DependencyKey(dep), DependencyValue(dep))]

\* for (const propOverride of this.propertyOverrides)
RECURSIVE ApplyPropertyOverrides(_, _)
ApplyPropertyOverrides(T, overrides) ==
    IF overrides = <<>> THEN T
    ELSE ApplyPropertyOverrides(applyPropertyOverride(T, Head(overrides)), Tail(overrides))

\* for (const dep of this.dependencies)
RECURSIVE AddDependencies(_, _)
AddDependencies(T, deps) ==
    IF deps = <<>> THEN T
    ELSE AddDependencies(addDependencyToGenerator(T, Head(deps)), Tail(deps))

\* the two loops in the other order
FinishDependenciesFirst(T) ==
    ApplyPropertyOverrides(AddDependencies(T, dependencies), propertyOverrides)

\* lines 170-178: the two loops that follow the module loop
Finish(T) == AddDependencies(ApplyPropertyOverrides(T, propertyOverrides), dependencies)

\* the generator as applyTo finds it
Target == [events |-> events, jhipsterConfig |-> jhipsterConfig, inFlight |-> inFlight]

\* generator.composeWithJHipster(...) is called for sorted[k]: the call is in flight
Compose(T, sorted, k) ==
    [T EXCEPT !.events = Append(@, ComposeEvent(sorted[k])), !.inFlight = @ \cup {k}]

\* the call made for position k signals completion, with a result or with an error
Settle(T, k) == [T EXCEPT !.inFlight = @ \ {k}]

\* the call for the next enabled module made while the one before it is still in flight
ContinueWithoutAwait(sorted, from, T) ==
    LET k == NextComposed(sorted, from)
        k2 == NextComposed(sorted, k + 1)
    IN  IF k2 <= Len(sorted)
        THEN [run |-> [state |-> "awaiting", sortedModules |-> sorted, i |-> k2,
                       error |-> NoError],
              target |-> Compose(Compose(T, sorted, k), sorted, k2)]
        ELSE IF k <= Len(sorted)
        THEN [run |-> [state |-> "awaiting", sortedModules |-> sorted, i |-> k,
                       error |-> NoError],
              target |-> Compose(T, sorted, k)]
        ELSE [run |-> [state |-> "fulfilled", sortedModules |-> sorted, i |-> k,
                       error |-> NoError],
              target |-> Finish(T)]

\* the loop over this.modules as it is when the loop resumes, not over the sorted copy
ContinueOnLiveList(sorted, from, T) ==
    LET live == SortedModules(modules)
        k == NextComposed(live, from)
    IN  IF k <= Len(live)
        THEN [run |-> [state |-> "awaiting", sortedModules |-> live, i |-> k,
                       error |-> NoError],
              target |-> Compose(T, live, k)]
        ELSE [run |-> [state |-> "fulfilled", sortedModules |-> live, i |-> k,
                       error |-> NoError],
              target |-> Finish(T)]

\* the module loop from position `from` up to its next await, or to the end of applyTo
Continue(sorted, from, T) ==
    LET k == NextComposed(sorted, from)
    IN  IF k <= Len(sorted)
        THEN [run |-> [state |-> "awaiting", sortedModules |-> sorted, i |-> k,
                       error |-> NoError],
              target |-> Compose(T, sorted, k)]
        ELSE [run |-> [state |-> "fulfilled", sortedModules |-> sorted, i |-> k,
                       error |-> NoError],
              target |-> Finish(T)]

\* the rejection caught and dropped: the loop goes on with the next module
ThrowCaught(error) ==
    Continue(run.sortedModules, run.i + 1, Settle(Target, run.i))

\* the awaited call rejects: nothing catches it, applyTo rejects with the same error
Throw(error) ==
    [run |-> [run EXCEPT !.state = "rejected", !.error = error],
     target |-> Settle(Target, run.i)]

Errors == {"unknown generator", "compose failed"}

Become(out) ==
    /\ run' = out.run
    /\ events' = out.target.events
    /\ jhipsterConfig' = out.target.jhipsterConfig
    /\ inFlight' = out.target.inFlight

\* the call of applyTo, up to its first await or, with nothing to compose, to its end
ApplyTo ==
    /\ this \in DOMAIN injectors
    /\ run.state # "awaiting"
    /\ Become(Continue(SortedModules(modules), 1, [Target EXCEPT !.events = <<>>]))
    /\ arrays' = [arrays EXCEPT ![this_modules] = ModulesAfterSort(modules)]
    /\ earlier' = earlier \cup {events[n] : n \in {j \in DOMAIN events :
                                                   events[j].kind = "composeWithJHipster"}}
    /\ last' = [op |-> "applyTo"]
    /\ UNCHANGED <<held, injectors, this>>

\* the awaited composeWithJHipster call completes: the loop goes on
ComposeResolve ==
    /\ run.state = "awaiting"
    /\ Become(Continue(run.sortedModules, run.i + 1, Settle(Target, run.i)))
    /\ last' = [op |-> "resolve"]
    /\ UNCHANGED <<arrays, held, injectors, this, earlier>>

\* the awaited composeWithJHipster call fails
ComposeReject(error) ==
    /\ run.state = "awaiting"
    /\ Become(Throw(error))
    /\ last' = [op |-> "reject", error |-> error]
    /\ UNCHANGED <<arrays, held, injectors, this, earlier>>

----------------------------------------------------------------------------
(* Inputs *)

SPRING_BOOT_MODULES_JWT == "jhipster:spring-boot:jwt"
SPRING_BOOT_MODULES_OAUTH2 == "jhipster:spring-boot:oauth2"
SPRING_MODULES_CACHE == "spring-cache"

ModuleIds == {SPRING_BOOT_MODULES_JWT, SPRING_MODULES_CACHE}

\* the config argument of injectModule: omitted, or an object with `enabled`
ModuleConfigs ==
    { <<>>,
      <<[enabled |-> TRUE, priority |-> 1]>>,
      <<[enabled |-> TRUE, priority |-> -1, config |-> "provider=redis"]>>,
      <<[enabled |-> FALSE]>> }

(* applyTo on module requests alone *)
NextModules ==
    \/ \E module \in ModuleIds, config \in ModuleConfigs : InjectModule(module, config)
    \/ ApplyTo
    \/ ComposeResolve
    \/ \E error \in Errors : ComposeReject(error)

SpecModules == Init /\ [][NextModules]_vars

----------------------------------------------------------------------------
(* Claims about the module loop *)

ComposeCalls == SelectSeq(events, LAMBDA e : e.kind = "composeWithJHipster")

\* the module requests that were registered when the current run was called
RegisteredAtCall == SubSeq(modules, 1, Len(run.sortedModules))

Started == run.state \in {"awaiting", "fulfilled", "rejected"}

PriorityOrZero(m) == IF "priority" \in DOMAIN m THEN m.priority ELSE 0

\* request a of reg is due before request b: lower priority, or equal priority
\* and registered earlier
DueBefore(reg, a, b) ==
    \/ PriorityOrZero(reg[a]) < PriorityOrZero(reg[b])
    \/ PriorityOrZero(reg[a]) = PriorityOrZero(reg[b]) /\ a < b

EnabledIndexes(reg) == {a \in 1..Len(reg) : reg[a].enabled = TRUE}

\* the enabled requests of reg, each at the position given by the number of
\* enabled requests due before it
DueOrder(reg) ==
    [k \in 1..Cardinality(EnabledIndexes(reg)) |->
        reg[CHOOSE a \in EnabledIndexes(reg) :
                Cardinality({b \in EnabledIndexes(reg) : DueBefore(reg, b, a)}) = k - 1]]

OptionsOf(m) == IF "config" \in DOMAIN m THEN m.config ELSE undefined

\* C1: the composition calls of a run are made in ascending order of priority
\* (a missing priority counting as 0), requests of equal priority in the order
\* they were registered: the calls made so far are the first ones of that order,
\* and a run that ended without failure made all of them.
C1_AscendingStableOrder ==
    Started =>
        LET due == DueOrder(RegisteredAtCall)
        IN  /\ Len(ComposeCalls) <= Len(due)
            /\ \A k \in 1..Len(ComposeCalls) :
                    /\ ComposeCalls[k].key = due[k].module
                    /\ ComposeCalls[k].value = OptionsOf(due[k])
            /\ run.state = "fulfilled" => Len(ComposeCalls) = Len(due)

\* A(no priority), B(-1), C(-1) registered in that order were composed B, C, A
C1_Witness ==
    /\ run.state = "fulfilled"
    /\ Len(run.sortedModules) = 3
    /\ \A a \in 1..3 : modules[a].enabled
    /\ "priority" \notin DOMAIN modules[1]
    /\ "priority" \in DOMAIN modules[2] /\ modules[2].priority = -1
    /\ "priority" \in DOMAIN modules[3] /\ modules[3].priority = -1
    /\ modules[2].module # modules[3].module
    /\ Len(ComposeCalls) = 3
    /\ ComposeCalls[1].key = modules[2].module
    /\ ComposeCalls[2].key = modules[3].module
    /\ ComposeCalls[3].key = modules[1].module

\* number of positions of s that satisfy Test
Count(s, Test(_)) == Cardinality({k \in 1..Len(s) : Test(s[k])})

\* C2: a run that ended without failure called the composition interface once
\* for every request registered with enabled true when the run was called (as
\* many calls with an identifier and options as there are such requests), with
\* the request's options as generatorOptions, and made no call for a request
\* with enabled false, which is still in the module list.
C2_OncePerEnabledModule ==
    run.state = "fulfilled" =>
        /\ Len(ComposeCalls) = Cardinality(EnabledIndexes(RegisteredAtCall))
        /\ \A a \in 1..Len(RegisteredAtCall) :
              LET m == RegisteredAtCall[a]
              IN  Count(ComposeCalls, LAMBDA e : e.key = m.module /\ e.value = OptionsOf(m))
                    = Count(RegisteredAtCall,
                            LAMBDA x : /\ x.enabled = TRUE
                                       /\ x.module = m.module
                                       /\ OptionsOf(x) = OptionsOf(m))
        /\ \A k \in 1..Len(run.sortedModules) :
              run.sortedModules[k].enabled = FALSE =>
                  Count(modules, LAMBDA x : x = run.sortedModules[k]) >= 1

\* jwt was registered twice enabled and cache once disabled: two calls, both for jwt
C2_Witness ==
    /\ run.state = "fulfilled"
    /\ Len(run.sortedModules) = 3
    /\ Count(modules, LAMBDA x : x.enabled /\ x.module = SPRING_BOOT_MODULES_JWT) = 2
    /\ Count(modules, LAMBDA x : ~x.enabled /\ x.module = SPRING_MODULES_CACHE) = 1
    /\ Len(ComposeCalls) = 2
    /\ \A k \in 1..2 : ComposeCalls[k].key = SPRING_BOOT_MODULES_JWT

----------------------------------------------------------------------------
(* applyTo on property overrides alone *)

PropertyPaths == {"logging.level.root", "server.port"}

PropertyValues == {"INFO"}

\* the options argument of overrideProperty: omitted, or type / override / profiles
OverrideOptions ==
    { <<>>,
      <<[type |-> "string", override |-> TRUE]>>,
      <<[profiles |-> <<>>]>>,
      <<[profiles |-> << <<"dev", "DEBUG">>, <<"prod", "WARN">> >>]>>,
      <<[type |-> "string", profiles |-> << <<"prod", "ERROR">> >>]>> }

NextOverrides ==
    \/ \E property \in PropertyPaths, value \in PropertyValues, options \in OverrideOptions :
          OverrideProperty(property, value, options)
    \/ ApplyTo

SpecOverrides == Init /\ [][NextOverrides]_vars

\* applyTo has just run to its end: the lists are those its loops went through
JustFulfilled == run.state = "fulfilled" /\ last.op \in {"applyTo", "resolve"}

PropertyWrites == SelectSeq(events, LAMBDA e : e.kind = "property")

ProfilesOf(po) == IF "profiles" \in DOMAIN po THEN po.profiles ELSE <<>>

\* number of writes due to the overrides in front of position a
RECURSIVE WritesBefore(_, _)
WritesBefore(overrides, a) ==
    IF a <= 1 THEN 0
    ELSE WritesBefore(overrides, a - 1) + 1 + Len(ProfilesOf(overrides[a - 1]))

----------------------------------------------------------------------------
(* applyTo on dependencies alone *)

GroupIds == {"com.example", "org.acme"}

Versions == {"1.0.0", "2.0.0"}

DependencyConfigs ==
    {[groupId |-> g, artifactId |-> "lib"] : g \in GroupIds}
    \cup {[groupId |-> g, artifactId |-> "lib", version |-> v] : g \in GroupIds, v \in Versions}
    \cup {[groupId |-> "org.acme", artifactId |-> "starter", scope |-> "test", optional |-> TRUE,
           exclusions |-> <<[groupId |-> "org.springframework.boot",
                             artifactId |-> "spring-boot-starter-logging"]>>]}

NextDependencies ==
    \/ \E config \in DependencyConfigs : AddDependency(config)
    \/ ApplyTo

SpecDependencies == Init /\ [][NextDependencies]_vars

SameArtifact(d1, d2) == d1.groupId = d2.groupId /\ d1.artifactId = d2.artifactId

VersionOrBOM(dep) == IF "version" \in DOMAIN dep THEN dep.version ELSE "BOM"

\* position a holds the last registered dependency with its groupId and artifactId
LastOfItsArtifact(a) ==
    \A b \in (a + 1)..Len(dependencies) : ~SameArtifact(dependencies[a], dependencies[b])

\* C5: after a run the dependency map holds, under groupId:artifactId, the value
\* of the dependency registered last with that groupId and artifactId; every
\* entry under a key of a registered dependency is such a last value, so no
\* earlier version survives.
C5_LastDependencyWins ==
    JustFulfilled /\ dependencies # <<>> =>
        /\ "springBootDependencies" \in DOMAIN jhipsterConfig
        /\ \A a \in 1..Len(dependencies) :
              LET dep == dependencies[a]
                  key == dep.groupId \o ":" \o dep.artifactId
              IN  /\ key \in DOMAIN jhipsterConfig.springBootDependencies
                  /\ LastOfItsArtifact(a) =>
                        jhipsterConfig.springBootDependencies[key] = VersionOrBOM(dep)

\* com.example:lib registered with 1.0.0 and then 2.0.0: the map holds 2.0.0
C5_Witness ==
    /\ JustFulfilled
    /\ Len(dependencies) = 2
    /\ SameArtifact(dependencies[1], [groupId |-> "com.example", artifactId |-> "lib"])
    /\ SameArtifact(dependencies[2], dependencies[1])
    /\ VersionOrBOM(dependencies[1]) = "1.0.0"
    /\ VersionOrBOM(dependencies[2]) = "2.0.0"
    /\ jhipsterConfig.springBootDependencies["com.example:lib"] = "2.0.0"

DependencyWrites == SelectSeq(events, LAMBDA e : e.kind = "dependency")

\* C6: a run makes one dependency write per registered dependency, under the
\* key groupId:artifactId, with the declared version, or "BOM" when the
\* dependency declares none.
C6_VersionOrBOM ==
    JustFulfilled =>
        /\ Len(DependencyWrites) = Len(dependencies)
        /\ \A a \in 1..Len(dependencies) :
              LET dep == dependencies[a]
              IN  /\ DependencyWrites[a].key = dep.groupId \o ":" \o dep.artifactId
                  /\ DependencyWrites[a].value
                        = IF "version" \in DOMAIN dep THEN dep.version ELSE "BOM"

\* a dependency without version and one with a version were both written
C6_Witness ==
    /\ JustFulfilled
    /\ Len(dependencies) = 2
    /\ "version" \notin DOMAIN dependencies[1]
    /\ "version" \in DOMAIN dependencies[2]
    /\ DependencyWrites[1].value = "BOM"
    /\ DependencyWrites[2].value = dependencies[2].version

----------------------------------------------------------------------------
(* The whole injector: the three registrations and applyTo *)

ModuleArgs == { <<SPRING_BOOT_MODULES_JWT, <<>> >> }

OverrideArgs ==
    { <<"server.port", "8080", <<>> >>,
      <<"logging.level.root", "INFO", <<[profiles |-> << <<"dev", "DEBUG">> >>]>> >> }

DependencyArgs ==
    { [groupId |-> "com.example", artifactId |-> "lib", version |-> "1.0.0"],
      [groupId |-> "org.acme", artifactId |-> "lib"] }

Next ==
    \/ \E a \in ModuleArgs : InjectModule(a[1], a[2])
    \/ \E a \in OverrideArgs : OverrideProperty(a[1], a[2], a[3])
    \/ \E config \in DependencyArgs : AddDependency(config)
    \/ ApplyTo
    \/ ComposeResolve
    \/ \E error \in Errors : ComposeReject(error)

Spec == Init /\ [][Next]_vars

(* The same with modules of different priority, to follow a failing composition *)

FailureModuleArgs ==
    { <<SPRING_BOOT_MODULES_JWT, <<>> >>,
      <<SPRING_MODULES_CACHE, <<[enabled |-> TRUE, priority |-> -1]>> >> }

FailureOverrideArgs ==
    { <<"logging.level.root", "INFO", <<[profiles |-> << <<"dev", "DEBUG">> >>]>> >> }

FailureDependencyArgs ==
    { [groupId |-> "com.example", artifactId |-> "lib", version |-> "1.0.0"] }

NextFailure ==
    \/ \E a \in FailureModuleArgs : InjectModule(a[1], a[2])
    \/ \E a \in FailureOverrideArgs : OverrideProperty(a[1], a[2], a[3])
    \/ \E config \in FailureDependencyArgs : AddDependency(config)
    \/ ApplyTo
    \/ ComposeResolve
    \/ \E error \in Errors : ComposeReject(error)

SpecFailure == Init /\ [][NextFailure]_vars

\* number of composition calls the run has made up to its position i
CallsUpToPosition ==
    Cardinality({k \in 1..Len(run.sortedModules) : k <= run.i /\ run.sortedModules[k].enabled})

\* C3: when a composition call fails, applyTo ends with that very failure; the
\* run has then made no call for a module behind the failing one and no write
\* to the configuration map, and the calls made before the failure stay made.
C3_FailurePropagates ==
    /\ last.op = "reject" => run.state = "rejected" /\ run.error = last.error
    /\ run.state = "rejected" =>
          /\ \A k \in 1..Len(events) : events[k].kind = "composeWithJHipster"
          /\ Len(events) = CallsUpToPosition
          /\ run.sortedModules[run.i].enabled
          /\ events[Len(events)].key = run.sortedModules[run.i].module

\* of three enabled modules the first was composed, the second failed and the
\* third was never composed, and the registered override and dependency were
\* not written
C3_Witness ==
    /\ last.op = "reject"
    /\ run.state = "rejected"
    /\ Len(run.sortedModules) = 3
    /\ \A k \in 1..3 : run.sortedModules[k].enabled
    /\ run.i = 2
    /\ Len(events) = 2
    /\ propertyOverrides # <<>>
    /\ dependencies # <<>>
    /\ "logging.level.root" \notin DOMAIN jhipsterConfig

PhaseOf(e) ==
    IF e.kind = "composeWithJHipster" THEN 1
    ELSE IF e.kind = "property" THEN 2
    ELSE 3

\* C10: in a run every composition call comes before the first write to the
\* configuration map and every property write before the first dependency
\* write; the overrides are written in registration order, and so are the
\* dependencies.
C10_PhaseOrder ==
    /\ Started =>
          \A a \in 1..Len(events) : \A b \in a..Len(events) :
              PhaseOf(events[a]) <= PhaseOf(events[b])
    /\ run.state = "awaiting" =>
          \A a \in 1..Len(events) : PhaseOf(events[a]) = 1
    /\ JustFulfilled =>
          /\ \A a \in 1..Len(propertyOverrides) :
                /\ WritesBefore(propertyOverrides, a) < Len(PropertyWrites)
                /\ PropertyWrites[WritesBefore(propertyOverrides, a) + 1].key
                      = propertyOverrides[a].property
          /\ Len(DependencyWrites) = Len(dependencies)
          /\ \A a \in 1..Len(dependencies) :
                DependencyWrites[a].key
                    = dependencies[a].groupId \o ":" \o dependencies[a].artifactId

\* two compositions, then the writes of two overrides, then those of two dependencies
C10_Witness ==
    /\ JustFulfilled
    /\ last.op = "resolve"
    /\ Len(ComposeCalls) = 2
    /\ Len(propertyOverrides) = 2 /\ propertyOverrides[1].property # propertyOverrides[2].property
    /\ Len(dependencies) = 2 /\ dependencies[1].groupId # dependencies[2].groupId
    /\ Len(PropertyWrites) = 3
    /\ Len(DependencyWrites) = 2
    /\ events[3].kind = "property"
    /\ events[Len(events)].kind = "dependency"

----------------------------------------------------------------------------
(* Registrations, accessors and a caller that changes what it was handed *)

NextAccessors ==
    \/ \E a \in ModuleArgs : InjectModule(a[1], a[2])
    \/ \E a \in FailureOverrideArgs : OverrideProperty(a[1], a[2], a[3])
    \/ \E config \in FailureDependencyArgs : AddDependency(config)
    \/ GetModules
    \/ GetPropertyOverrides
    \/ GetDependencies
    \/ \E h \in 1..MaxHeld : CallerPush(h)
    \/ \E h \in 1..MaxHeld : CallerPop(h)
    \/ \E h \in 1..MaxHeld : CallerReverse(h)

SpecAccessors == Init /\ [][NextAccessors]_vars

Registrations == {"injectModule", "overrideProperty", "addDependency"}

Accessors == {"getModules", "getPropertyOverrides", "getDependencies"}

BuilderLists == <<modules, propertyOverrides, dependencies>>

\* C7: an accessor returns a sequence with the elements of the builder's list and
\* leaves the builder's lists alone; a registration changes no sequence returned
\* before; a caller adding, removing or reordering elements of a returned
\* sequence changes none of the builder's lists.
C7_IndependentSnapshots ==
    [][ /\ last'.op \in Accessors =>
              /\ Len(held') = Len(held) + 1
              /\ arrays'[held'[Len(held')].ref] = arrays[held'[Len(held')].of]
              /\ BuilderLists' = BuilderLists
              /\ \A h \in 1..Len(held) : arrays'[held[h].ref] = arrays[held[h].ref]
        /\ last'.op \in Registrations =>
              \A h \in 1..Len(held) : arrays'[held[h].ref] = arrays[held[h].ref]
        /\ last'.op = "caller" => BuilderLists' = BuilderLists
      ]_vars

\* the caller emptied the sequence getModules returned and put an element of its
\* own in it, and a module was registered after that: the builder holds the two
\* registered modules and the returned sequence only the caller's element
C7_Witness ==
    /\ last.op = "injectModule"
    /\ Len(held) = 1
    /\ held[1].of = this_modules
    /\ arrays[held[1].ref] = <<Intruder>>
    /\ Len(modules) = 2
    /\ \A k \in 1..2 : modules[k] # Intruder

----------------------------------------------------------------------------
(* Registrations with arguments that carry the keys the signatures omit: an  *)
(* object typed SpringBootModuleConfig or SpringBootPropertyOverride passed   *)
(* as config or options, as typed-api.spec.ts line 99 does                    *)

FullModuleConfigs ==
    { <<>>,
      <<[enabled |-> FALSE, priority |-> 1]>>,
      <<[module |-> SPRING_BOOT_MODULES_OAUTH2, enabled |-> TRUE]>> }

FullOverridePaths == {"logging.level.com.example", "server.port"}

FullOverrideOptions ==
    { <<>>,
      <<[property |-> "logging.level.com.example", value |-> "DEBUG", type |-> "string",
         override |-> TRUE, profiles |-> << <<"dev", "TRACE">>, <<"prod", "INFO">> >>]>> }

NextRegistration ==
    \/ \E config \in FullModuleConfigs : InjectModule(SPRING_BOOT_MODULES_JWT, config)
    \/ \E property \in FullOverridePaths, options \in FullOverrideOptions :
          OverrideProperty(property, "DEBUG", options)
    \/ \E config \in DependencyArgs : AddDependency(config)

SpecRegistration == Init /\ [][NextRegistration]_vars

\* the entry the registration contracts describe: the fields of the optional
\* argument, with the identifying arguments of the call in their own fields
ClaimedEntry(own, optional, default) ==
    own @@ (IF Len(optional) = 0 THEN default ELSE optional[1])

\* C8: every injectModule call adds one entry to the module list, at its end,
\* and the entry has the identifier passed to the call together with the fields
\* of its config ({enabled: true} when config is omitted).
C8_EntryPerRegistration ==
    [][ last'.op = "injectModule" =>
            /\ modules' = Append(modules,
                                 ClaimedEntry([module |-> last'.module], last'.config,
                                              [enabled |-> TRUE]))
            /\ modules'[Len(modules')].module = last'.module
      ]_vars

\* C9: every overrideProperty call adds one entry to the override list, at its
\* end; its path is the path argument, its value the value argument, and its
\* other fields are those of options (none when options is omitted).
C9_EntryPerOverride ==
    [][ last'.op = "overrideProperty" =>
            /\ propertyOverrides' =
                  Append(propertyOverrides,
                         ClaimedEntry([property |-> last'.property, value |-> last'.value],
                                      last'.options, <<>>))
            /\ propertyOverrides'[Len(propertyOverrides')].property = last'.property
            /\ propertyOverrides'[Len(propertyOverrides')].value = last'.value
      ]_vars

----------------------------------------------------------------------------
(* Claims about a run and the calls it waits for *)

\* the position in the sorted copy of the module the n-th call of the log was
\* made for
PositionOfCall(n) ==
    CHOOSE k \in 1..Len(run.sortedModules) :
        /\ run.sortedModules[k].enabled = TRUE
        /\ Cardinality({j \in 1..k : run.sortedModules[j].enabled = TRUE}) = n

\* C11: the composition calls of a run are made one at a time: at most one call
\* is in flight, it is the call made last, every call made before it has
\* signalled completion, and a run that is not waiting has no call in flight.
C11_OneCallInFlight ==
    /\ Cardinality(inFlight) <= 1
    /\ run.state = "awaiting" => inFlight = {PositionOfCall(Len(ComposeCalls))}
    /\ run.state # "awaiting" => inFlight = {}
    /\ \A n \in 1..(Len(ComposeCalls) - 1) : PositionOfCall(n) \notin inFlight

\* the run waits for its second call after the first one signalled completion
C11_Witness ==
    /\ run.state = "awaiting"
    /\ last.op = "resolve"
    /\ Len(ComposeCalls) = 2
    /\ inFlight = {run.i}
    /\ PositionOfCall(1) < run.i

\* C12: a call of applyTo that follows other calls of applyTo replays all the
\* injector holds when it is called: a run that ended without
\* failure made again every composition call the runs before it made, made one
\* call for each enabled request registered when it was called, and wrote every
\* override and every dependency registered.
C12_EveryCallReplays ==
    JustFulfilled =>
        /\ \A c \in earlier : \E n \in 1..Len(ComposeCalls) : ComposeCalls[n] = c
        /\ Len(ComposeCalls) = Cardinality(EnabledIndexes(RegisteredAtCall))
        /\ Len(PropertyWrites) = WritesBefore(propertyOverrides, Len(propertyOverrides) + 1)
        /\ Len(DependencyWrites) = Len(dependencies)

\* a later run composed two modules, one of them composed by a run before it,
\* and wrote an override and a dependency
C12_Witness ==
    /\ JustFulfilled
    /\ earlier # {}
    /\ Len(ComposeCalls) = 2
    /\ \E n \in 1..2 : ComposeCalls[n] \in earlier
    /\ Len(PropertyWrites) >= 1
    /\ Len(DependencyWrites) >= 1

----------------------------------------------------------------------------
(* Claims about what a run leaves alone *)

\* a generator whose configuration map may hold entries of its own, and a
\* dependency of an artifact that map has no entry for
FrameDependencyArgs == { [groupId |-> "org.acme", artifactId |-> "lib"] }

NextFrame ==
    \/ \E a \in ModuleArgs : InjectModule(a[1], a[2])
    \/ \E a \in OverrideArgs : OverrideProperty(a[1], a[2], a[3])
    \/ \E config \in FrameDependencyArgs : AddDependency(config)
    \/ ApplyTo
    \/ ComposeResolve
    \/ \E error \in Errors : ComposeReject(error)

SpecFrame == Init /\ [][NextFrame]_vars

\* the keys the claim allows a run to write for the overrides registered
OverrideKeys ==
    UNION {{propertyOverrides[a].property} \cup
           {propertyOverrides[a].property \o "@" \o ProfilesOf(propertyOverrides[a])[p][1] :
                p \in 1..Len(ProfilesOf(propertyOverrides[a]))} :
           a \in 1..Len(propertyOverrides)}

\* the keys of the dependency sub-map the claim allows a run to write
DependencyKeys ==
    {dependencies[a].groupId \o ":" \o dependencies[a].artifactId : a \in 1..Len(dependencies)}

\* the dependency sub-map of a configuration map, without entries when there is none
SubMapOf(config) ==
    IF "springBootDependencies" \in DOMAIN config THEN config["springBootDependencies"]
    ELSE <<>>

----------------------------------------------------------------------------
(* createSpringBootInjector and the SpringBoot factories: typed-api.ts lines 228-308 *)

SPRING_BOOT_MODULES_SESSION == "jhipster:spring-boot:session"
SPRING_BOOT_MODULES_FEIGN_CLIENT == "jhipster:spring-boot:feign-client"
SPRING_BOOT_MODULES_WEBSOCKET == "jhipster:spring-boot:websocket"
SPRING_DATA_MODULES_RELATIONAL == "jhipster:spring-data:relational"
SPRING_DATA_MODULES_MONGODB == "jhipster:spring-data:mongodb"
SPRING_MODULES_CLOUD_STREAM == "spring-cloud-stream"

\* return new SpringBootModuleInjector(): the heap with three more arrays, all
\* empty, and an injector that refers to them
createSpringBootInjector ==
    [arrays |-> arrays \o NewInjector,
     injectors |-> Append(injectors, InjectorAt(Len(arrays))),
     ref |-> Len(injectors) + 1]

\* createSpringBootInjector().injectModule(module, config), and its result
\* handed to the caller
InjectInto(made, module, config) ==
    /\ injectors' = made.injectors
    /\ arrays' = [made.arrays EXCEPT ![made.injectors[made.ref].modules] =
                      Append(@, ModuleRequest(module, config))]
    /\ this' = ReturnThis(made.ref)
    /\ UNCHANGED <<held, run, events, jhipsterConfig, inFlight, earlier>>

jwt(config) ==
    /\ Len(injectors) < MaxInjectors
    /\ InjectInto(createSpringBootInjector, SPRING_BOOT_MODULES_JWT, config)
    /\ last' = [op |-> "jwt", config |-> config]

oauth2(config) ==
    /\ Len(injectors) < MaxInjectors
    /\ InjectInto(createSpringBootInjector, SPRING_BOOT_MODULES_OAUTH2, config)
    /\ last' = [op |-> "oauth2", config |-> config]

session(config) ==
    /\ Len(injectors) < MaxInjectors
    /\ InjectInto(createSpringBootInjector, SPRING_BOOT_MODULES_SESSION, config)
    /\ last' = [op |-> "session", config |-> config]

feignClient(config) ==
    /\ Len(injectors) < MaxInjectors
    /\ InjectInto(createSpringBootInjector, SPRING_BOOT_MODULES_FEIGN_CLIENT, config)
    /\ last' = [op |-> "feignClient", config |-> config]

websocket(config) ==
    /\ Len(injectors) < MaxInjectors
    /\ InjectInto(createSpringBootInjector, SPRING_BOOT_MODULES_WEBSOCKET, config)
    /\ last' = [op |-> "websocket", config |-> config]

relational(config) ==
    /\ Len(injectors) < MaxInjectors
    /\ InjectInto(createSpringBootInjector, SPRING_DATA_MODULES_RELATIONAL, config)
    /\ last' = [op |-> "relational", config |-> config]

mongodb(config) ==
    /\ Len(injectors) < MaxInjectors
    /\ InjectInto(createSpringBootInjector, SPRING_DATA_MODULES_MONGODB, config)
    /\ last' = [op |-> "mongodb", config |-> config]

cache(config) ==
    /\ Len(injectors) < MaxInjectors
    /\ InjectInto(createSpringBootInjector, SPRING_MODULES_CACHE, config)
    /\ last' = [op |-> "cache", config |-> config]

cloudStream(config) ==
    /\ Len(injectors) < MaxInjectors
    /\ InjectInto(createSpringBootInjector, SPRING_MODULES_CLOUD_STREAM, config)
    /\ last' = [op |-> "cloudStream", config |-> config]

\* SpringBoot.injector()
injector ==
    /\ Len(injectors) < MaxInjectors
    /\ injectors' = createSpringBootInjector.injectors
    /\ arrays' = createSpringBootInjector.arrays
    /\ this' = createSpringBootInjector.ref
    /\ last' = [op |-> "injector"]
    /\ UNCHANGED <<held, run, events, jhipsterConfig, inFlight, earlier>>

\* the caller goes on with another injector it was handed (not while a run
\* waits: `run` follows the applyTo of the injector the caller is on)
CallOn(b) ==
    /\ b \in DOMAIN injectors
    /\ b # this
    /\ run.state # "awaiting"
    /\ this' = b
    /\ last' = [op |-> "callOn"]
    /\ UNCHANGED <<arrays, held, run, events, jhipsterConfig, injectors, inFlight, earlier>>

\* the config argument of a factory: omitted, an object of the parameter type,
\* or an object typed SpringBootModuleConfig, which carries a module key
FactoryConfigs ==
    { <<>>,
      <<[enabled |-> FALSE]>>,
      <<[module |-> SPRING_BOOT_MODULES_OAUTH2, enabled |-> TRUE]>> }

NextFactories ==
    \/ \E config \in FactoryConfigs : jwt(config)
    \/ \E config \in FactoryConfigs : oauth2(config)
    \/ \E config \in FactoryConfigs : session(config)
    \/ \E config \in FactoryConfigs : feignClient(config)
    \/ \E config \in FactoryConfigs : websocket(config)
    \/ \E config \in FactoryConfigs : relational(config)
    \/ \E config \in FactoryConfigs : mongodb(config)
    \/ \E config \in FactoryConfigs : cache(config)
    \/ \E config \in FactoryConfigs : cloudStream(config)
    \/ injector
    \/ \E b \in 1..MaxInjectors : CallOn(b)
    \/ \E a \in ModuleArgs : InjectModule(a[1], a[2])

SpecFactories == Init /\ [][NextFactories]_vars

----------------------------------------------------------------------------
(* Claims about chains of calls and about the factories *)

\* the number of entries the accessors of injector b show
Entries(heap, b) ==
    Len(heap[injectors[b].modules]) + Len(heap[injectors[b].propertyOverrides])
        + Len(heap[injectors[b].dependencies])

\* C14: injectModule, overrideProperty and addDependency each return the
\* injector they were called on, so the next call of a chain is made on the same
\* injector, which holds one entry more after every call of the chain.
C14_ReturnsItsInjector ==
    [][ last'.op \in Registrations =>
            /\ this' = this
            /\ injectors' = injectors
            /\ Entries(arrays', this) = Entries(arrays, this) + 1
      ]_vars

\* a chain of three calls, one of each kind, on the injector of the start: its
\* accessors show the three entries
C14_Witness ==
    /\ last.op \in Registrations
    /\ this = 1
    /\ Len(injectors) = 1
    /\ Len(modules) = 1 /\ Len(propertyOverrides) = 1 /\ Len(dependencies) = 1

\* the identifier the claim gives each factory
PresetOf ==
    [jwt |-> "jhipster:spring-boot:jwt",
     oauth2 |-> "jhipster:spring-boot:oauth2",
     session |-> "jhipster:spring-boot:session",
     feignClient |-> "jhipster:spring-boot:feign-client",
     websocket |-> "jhipster:spring-boot:websocket",
     relational |-> "jhipster:spring-data:relational",
     mongodb |-> "jhipster:spring-data:mongodb",
     cache |-> "spring-cache",
     cloudStream |-> "spring-cloud-stream"]

\* the arrays injector b refers to
ArraysOf(b) == {b.modules, b.propertyOverrides, b.dependencies}

\* the step made an injector whose three arrays are new and left every injector
\* and every array there was as it was
MadeNewInjector ==
    /\ Len(injectors') = Len(injectors) + 1
    /\ this' = Len(injectors')
    /\ Cardinality(ArraysOf(injectors'[this'])) = 3
    /\ ArraysOf(injectors'[this']) \cap DOMAIN arrays = {}
    /\ \A b \in DOMAIN injectors : injectors'[b] = injectors[b]
    /\ \A ref \in DOMAIN arrays : arrays'[ref] = arrays[ref]

\* C15: each of the nine factories returns a new injector that holds one module
\* request, with the identifier of that factory and, when no config is passed,
\* enabled true and nothing else, and no override and no dependency; injector()
\* returns a new injector with three empty lists; a registration changes the
\* lists of no injector but the one it is called on.
C15_FactoriesMakeNewInjectors ==
    [][ /\ last'.op \in DOMAIN PresetOf =>
              /\ MadeNewInjector
              /\ Len(arrays'[injectors'[this'].modules]) = 1
              /\ arrays'[injectors'[this'].modules][1].module = PresetOf[last'.op]
              /\ last'.config = <<>> =>
                    arrays'[injectors'[this'].modules][1]
                        = [module |-> PresetOf[last'.op], enabled |-> TRUE]
              /\ arrays'[injectors'[this'].propertyOverrides] = <<>>
              /\ arrays'[injectors'[this'].dependencies] = <<>>
        /\ last'.op = "injector" =>
              /\ MadeNewInjector
              /\ \A ref \in ArraysOf(injectors'[this']) : arrays'[ref] = <<>>
        /\ last'.op \in Registrations =>
              \A b \in DOMAIN injectors \ {this} :
                  \A ref \in ArraysOf(injectors[b]) : arrays'[ref] = arrays[ref]
      ]_vars

----------------------------------------------------------------------------
(* Registrations, runs that succeed or fail, and getModules in between *)

NextLists ==
    \/ \E a \in FailureModuleArgs : Len(modules) < MaxListed /\ InjectModule(a[1], a[2])
    \/ \E a \in FailureOverrideArgs :
          Len(propertyOverrides) < MaxListed - 1 /\ OverrideProperty(a[1], a[2], a[3])
    \/ \E config \in FailureDependencyArgs :
          Len(dependencies) < MaxListed - 1 /\ AddDependency(config)
    \/ GetModules
    \/ ApplyTo
    \/ ComposeResolve
    \/ \E error \in Errors : ComposeReject(error)

SpecLists == Init /\ [][NextLists]_vars

\* list `after` is list `before` with one entry more at its end
ExtendedByOne(before_, after) ==
    /\ Len(after) = Len(before_) + 1
    /\ SubSeq(after, 1, Len(before_)) = before_

----------------------------------------------------------------------------
(* Registrations while a run waits for a composition: overrides and           *)
(* dependencies are registered only during such a wait, modules at any time   *)

NextWait ==
    \/ \E a \in ModuleArgs : InjectModule(a[1], a[2])
    \/ \E a \in FailureOverrideArgs :
          run.state = "awaiting" /\ OverrideProperty(a[1], a[2], a[3])
    \/ \E config \in FailureDependencyArgs :
          run.state = "awaiting" /\ AddDependency(config)
    \/ ApplyTo
    \/ ComposeResolve
    \/ \E error \in Errors : ComposeReject(error)

SpecWait == Init /\ [][NextWait]_vars

\* C17: a registration made while a run waits for a composition call leaves the
\* run's sorted copy of the module list as it is, and so does the end of the
\* call; the run composes the enabled modules of that copy and no other, and
\* when it ends it writes every override and every dependency the lists hold
\* by then, those registered during the wait included.
C17_UnevenDuringWait ==
    [][ run.state = "awaiting" =>
            /\ last'.op \in Registrations \cup {"resolve"} =>
                  run'.sortedModules = run.sortedModules
            /\ last'.op \in Registrations => events' = events
            /\ run'.state = "fulfilled" =>
                  /\ Len(SelectSeq(events', LAMBDA e : e.kind = "composeWithJHipster"))
                        = Cardinality(EnabledIndexes(run.sortedModules))
                  /\ \A a \in 1..Len(propertyOverrides) :
                        \E n \in 1..Len(events') :
                            /\ events'[n].kind = "property"
                            /\ events'[n].key = propertyOverrides[a].property
                            /\ events'[n].value = propertyOverrides[a].value
                  /\ \A a \in 1..Len(dependencies) :
                        \E n \in 1..Len(events') :
                            /\ events'[n].kind = "dependency"
                            /\ events'[n].key = dependencies[a].groupId \o ":"
                                                    \o dependencies[a].artifactId
      ]_vars

\* the first run was called with one module registered; while it waited a
\* second module, an override and a dependency were registered; it ended having
\* composed one module and written the override and the dependency
C17_Witness ==
    /\ JustFulfilled
    /\ last.op = "resolve"
    /\ earlier = {}
    /\ Len(run.sortedModules) = 1
    /\ Len(modules) = 2 /\ modules[2].enabled
    /\ Len(ComposeCalls) = 1
    /\ Len(propertyOverrides) = 1 /\ Len(PropertyWrites) = 2
    /\ Len(dependencies) = 1 /\ Len(DependencyWrites) = 1

====
